---------------------------- MODULE Spec2Model ----------------------------
(***************************************************************************)
(* Model of the route-weather client (public/app.js): the route sampler,   *)
(* the weather classifier, and the pipeline getRouteWithWeather with its   *)
(* session cache, map layers and restore logic.                            *)
(*                                                                         *)
(* Coordinates are [lon, lat] pairs on a grid of 0.025 degree steps next   *)
(* to the equator; distances are integer metres; times are integer         *)
(* milliseconds.  A JavaScript value that may be undefined / null / NaN is *)
(* a record with a flag (defined, isNull, valid) so that every field keeps *)
(* one type.                                                               *)
(***************************************************************************)
EXTENDS Integers, Sequences, FiniteSets, TLC

VARIABLES
    \* ---- sampler harness (sampleRoutePoints as a pure function)
    coordinates,           \* the polyline handed to sampleRoutePoints
    intervalKm,            \* its interval argument
    points,                \* its result; << >> until it has run
    segmentGeometry,       \* [done, segments]: startIdx, endIdx, segmentCoords per segment
    \* ---- classifier harness
    weatherCode,           \* the WMO code classified
    precipitation,         \* second argument of getWeatherColor
    classification,        \* [done, color, description, category]
    \* ---- time projector harness (the times of getWeatherForRoute)
    departureDate,         \* new Date(departureTime).getTime(), in ms
    routeDuration,         \* route.duration, the totalDurationSeconds argument
    pointCount,            \* routePoints.length (totalPoints)
    pointTimes,            \* pointTime of every index; << >> until it has run
    arrival,               \* pointTime of one route point, in ms
    hourlyStart,           \* new Date(data.hourly.time[0]).getTime(), in ms
    hourlyLength,          \* data.hourly.time.length
    hourIndex,             \* [done, valid, value]: the hourIndex selected
    \* ---- display harness (displayRouteWithWeather, then displayRouteInfo)
    samples,               \* the weatherData handed to both
    totalDistance,         \* route.distance / 1609.34, in miles
    layers,                \* ids i of the route-segment-i sources on the map
    features,              \* id -> the feature and paint added by the call
    alerts,                \* the alerts array of displayRouteInfo
    displayed,             \* both functions have run
    mapCleared,            \* clearMap has run on the map of the harness
    \* ---- application state
    map,                   \* "null" | "created" | "loaded"
    mapSegments,           \* indices i with a route-segment-i source and layer
    loading,               \* per form: loading indicator visible
    submitDisabled,        \* per form: submit button disabled
    errorShown,            \* per form: error box visible
    clearBtnVisible,       \* the clear-route button is visible
    sessionStorage,        \* the 'cachedRoute' slot
    currentRouteAddresses,
    currentRouteData,
    isRestoringRoute,
    rafCallback,           \* the requestAnimationFrame closure of a restore
    inv,                   \* per form: the invocation of getRouteWithWeather
    savedRoutes,           \* the parsed localStorage item 'savedRoutes'
    inputModalCallback,    \* TRUE while the save callback waits in the input modal
    \* ---- history (not program state)
    overlapped,            \* a submit, clear or restore ran during another
    lastWritten            \* result of the latest successful computation
                           \* whose cache write succeeded, since the last clear

samplerVars == <<coordinates, intervalKm, points, segmentGeometry>>
classVars   == <<weatherCode, precipitation, classification>>
uiVars      == <<loading, submitDisabled, errorShown, clearBtnVisible>>
histVars    == <<overlapped, lastWritten>>
projVars    == <<departureDate, routeDuration, pointCount, pointTimes, arrival,
                 hourlyStart, hourlyLength, hourIndex>>
displayVars == <<samples, totalDistance, layers, features, alerts, displayed,
                 mapCleared>>
harnessVars == <<samplerVars, classVars, projVars, displayVars>>
savedVars   == <<savedRoutes, inputModalCallback>>
appVars     == <<map, mapSegments, uiVars, sessionStorage, currentRouteAddresses,
                 currentRouteData, isRestoringRoute, rafCallback, inv, savedVars,
                 histVars>>
vars        == <<harnessVars, appVars>>

----------------------------------------------------------------------------
(* Bounds of the model *)

MaxLon == 1
MaxLat == 2
MaxVerts == 4
MaxIntervalKm == 6
MinCode == 5
MaxCode == 105
MaxRouteVerts == 2
MaxPoints == 5
MaxSamples == 5
LongRoute == 102

MaxHours == 4
MaxSaved == 2
MaxId == 2

(* Program constants *)

SampleIntervalKm == 5
ClearLimit == 100
UnitM == 2780

Grid == (0..MaxLon) \X (0..MaxLat)

Polylines == UNION {[1..n -> Grid] : n \in 1..MaxVerts}

Codes == (0 - MinCode)..MaxCode

----------------------------------------------------------------------------
(* Geodesy: the haversine distance of sampleRoutePoints *)

RECURSIVE SqrtSearch(_, _, _)
SqrtSearch(n, lo, hi) ==
    IF lo >= hi THEN lo
    ELSE LET mid == (lo + hi + 1) \div 2
         IN  IF mid * mid <= n THEN SqrtSearch(n, mid, hi)
                               ELSE SqrtSearch(n, lo, mid - 1)

ISqrt(n) == SqrtSearch(n, 0, 46340)

\* R * c in metres.  On this grid (steps of 0.025 degree, |lat| <= 0.1 degree)
\* cos(lat) = 1 to 6 digits and the haversine formula reduces to
\* R * sqrt(dLat^2 + dLon^2); one step is 6371000 * 0.025 * pi / 180 = 2780 m.
Haversine(c1, c2) ==
    LET dLon == c2[1] - c1[1]
        dLat == c2[2] - c1[2]
    IN  ISqrt((dLat * dLat + dLon * dLon) * UnitM * UnitM)

\* A RoutePoint.  ref is the identity of the coordinate array object: the
\* position in the polyline it was taken from (points[..].coords !== lastCoord
\* compares object references, and the elements of a parsed polyline are
\* pairwise distinct objects).
RoutePoint(coords, i, d) == [coords |-> coords[i], ref |-> i, distance |-> d]

\* Mutant: the accumulator is not reset when a point is emitted.
RECURSIVE SampleLoopKeepsAccumulator(_, _, _, _, _)
SampleLoopKeepsAccumulator(coords, intervalM, i, acc, pts) ==
    IF i > Len(coords) THEN [points |-> pts, accumulatedDistance |-> acc]
    ELSE LET accumulated == acc + Haversine(coords[i - 1], coords[i])
         IN  IF accumulated >= intervalM
               THEN SampleLoopKeepsAccumulator(coords, intervalM, i + 1, accumulated,
                               Append(pts, RoutePoint(coords, i, accumulated)))
               ELSE SampleLoopKeepsAccumulator(coords, intervalM, i + 1, accumulated, pts)

\* The loop of sampleRoutePoints from vertex i on; the result is the record of
\* points and the accumulator left when the loop ends.
RECURSIVE SampleLoop(_, _, _, _, _)
SampleLoop(coords, intervalM, i, acc, pts) ==
    IF i > Len(coords) THEN [points |-> pts, accumulatedDistance |-> acc]
    ELSE LET accumulated == acc + Haversine(coords[i - 1], coords[i])
         IN  IF accumulated >= intervalM
               THEN SampleLoop(coords, intervalM, i + 1, 0,
                               Append(pts, RoutePoint(coords, i, accumulated)))
               ELSE SampleLoop(coords, intervalM, i + 1, accumulated, pts)

\* "Always add the last point"
AddLastPoint(coords, loop) ==
    LET pts == loop.points
        last == pts[Len(pts)]
    IN  IF last.ref # Len(coords)
          THEN Append(pts, RoutePoint(coords, Len(coords),
                                      last.distance + loop.accumulatedDistance))
          ELSE pts

\* Mutant: the trailing "always add the last point" step is left out.
SampleRoutePointsNoLast(coords, km) ==
    SampleLoop(coords, km * 1000, 2, 0, <<RoutePoint(coords, 1, 0)>>).points

sampleRoutePoints(coords, km) ==
    AddLastPoint(coords,
                 SampleLoop(coords, km * 1000, 2, 0, <<RoutePoint(coords, 1, 0)>>))

\* Length of the polyline from its first vertex to vertex i.
RECURSIVE PathLength(_, _)
PathLength(coords, i) ==
    IF i <= 1 THEN 0
    ELSE PathLength(coords, i - 1) + Haversine(coords[i - 1], coords[i])

----------------------------------------------------------------------------
(* Weather classifier *)

\* Mutant: the intensity is read from the precipitation amount.
WeatherColorByPrecipitation(code, precip) ==
    IF code <= 3 THEN (IF code = 0 THEN "#4ade80" ELSE "#86efac")
    ELSE IF precip > 0 THEN "#3b82f6"
    ELSE "#6b7280"

getWeatherColor(code, precip) ==
    IF code = 0 THEN "#4ade80"
    ELSE IF code >= 1 /\ code <= 3 THEN "#86efac"
    ELSE IF code = 45 \/ code = 48 THEN "#9ca3af"
    ELSE IF code >= 51 /\ code <= 57 THEN "#60a5fa"
    ELSE IF code = 61 \/ code = 80 THEN "#60a5fa"
    ELSE IF code = 63 \/ code = 81 THEN "#3b82f6"
    ELSE IF code = 65 \/ code = 66 \/ code = 67 \/ code = 82 THEN "#1e40af"
    ELSE IF code = 71 \/ code = 85 THEN "#e9d5ff"
    ELSE IF code = 73 THEN "#a855f7"
    ELSE IF code = 75 \/ code = 77 \/ code = 86 THEN "#9333ea"
    ELSE IF code >= 95 THEN "#ef4444"
    ELSE "#6b7280"

descriptions ==
    [c \in {0, 1, 2, 3, 45, 48, 51, 53, 55, 61, 63, 65, 71, 73, 75, 77,
            80, 81, 82, 85, 86, 95, 96, 99} |->
        CASE c = 0 -> "Clear sky"
          [] c = 1 -> "Mainly clear"
          [] c = 2 -> "Partly cloudy"
          [] c = 3 -> "Overcast"
          [] c \in {45, 48} -> "Foggy"
          [] c = 51 -> "Light drizzle"
          [] c = 53 -> "Drizzle"
          [] c = 55 -> "Heavy drizzle"
          [] c = 61 -> "Light rain"
          [] c = 63 -> "Rain"
          [] c = 65 -> "Heavy rain"
          [] c = 71 -> "Light snow"
          [] c = 73 -> "Snow"
          [] c = 75 -> "Heavy snow"
          [] c = 77 -> "Snow grains"
          [] c = 80 -> "Light rain showers"
          [] c = 81 -> "Rain showers"
          [] c = 82 -> "Heavy rain showers"
          [] c = 85 -> "Light snow showers"
          [] c = 86 -> "Snow showers"
          [] c = 95 -> "Thunderstorm"
          [] c = 96 -> "Thunderstorm with hail"
          [] c = 99 -> "Severe thunderstorm"]

getWeatherDescription(code) ==
    IF code \in DOMAIN descriptions THEN descriptions[code] ELSE "Unknown"

\* The arrow function of displayRouteInfo; null is "none".
getWeatherCategory(code) ==
    IF code >= 95 THEN "Thunderstorm"
    ELSE IF code >= 85 \/ (code >= 71 /\ code <= 77)
      THEN IF code = 75 \/ code = 77 \/ code = 86 THEN "Heavy snow" ELSE "Snow"
    ELSE IF code >= 61 \/ (code >= 51 /\ code <= 57) \/ (code >= 80 /\ code <= 82)
      THEN IF code = 65 \/ code = 67 \/ code = 82 THEN "Heavy rain" ELSE "Rain"
    ELSE IF code = 45 \/ code = 48 THEN "Fog"
    ELSE "none"

\* The rows of the classifier table of the design (section 4.4).
TableCategory(code) ==
    CASE code \in 0..3 -> "none"
      [] code \in {45, 48} -> "Fog"
      [] code \in (51..57) \cup {61, 63, 80, 81} -> "Rain"
      [] code \in {65, 66, 67, 82} -> "Heavy rain"
      [] code \in {71, 73, 85} -> "Snow"
      [] code \in {75, 77, 86} -> "Heavy snow"
      [] code >= 95 -> "Thunderstorm"
      [] OTHER -> "none"

InTable(code) ==
    \/ code \in 0..3
    \/ code \in {45, 48, 61, 63, 65, 66, 67, 71, 73, 75, 77, 80, 81, 82, 85, 86}
    \/ code \in 51..57
    \/ code >= 95

Unclassified == [done |-> FALSE, color |-> "", description |-> "", category |-> ""]


----------------------------------------------------------------------------
(* Values of the application *)

Forms == {"desktop", "mobile"}

\* What the user submits: start address, end address, departure time (ms).
Trips == {<<"a", "b", 0>>, <<"b", "a", 1800000>>}

\* data.features[0].center of the geocoding response for a location
Geocode(location) == IF location = "a" THEN <<0, 0>> ELSE <<0, 2>>

\* The polylines the directions service answers with: n vertices, one every
\* 5.56 km along a meridian (a single-vertex geometry included).
RoutePolyline(n) == [i \in 1..n |-> <<0, 2 * (i - 1)>>]

NoRoute == [defined |-> FALSE, coordinates |-> << >>, duration |-> 0, req |-> << >>]

\* data.routes[0].  req is the request the service answered (history: it
\* identifies the computation a route belongs to).
Route(coords, startCoords, endCoords) ==
    [defined |-> TRUE, coordinates |-> coords,
     duration |-> 60 * Len(coords), req |-> <<startCoords, endCoords>>]

InitialAddresses ==
    [isNull |-> FALSE, start |-> "", end |-> "", startCoords |-> << >>, endCoords |-> << >>]

NullAddresses ==
    [isNull |-> TRUE, start |-> "", end |-> "", startCoords |-> << >>, endCoords |-> << >>]

Addresses(start, end, startCoords, endCoords) ==
    [isNull |-> FALSE, start |-> start, end |-> end,
     startCoords |-> startCoords, endCoords |-> endCoords]

NoRouteData == [isNull |-> TRUE, route |-> NoRoute]

\* A Date: valid is FALSE for an Invalid Date (time value NaN).
Date(ms) == [valid |-> TRUE, ms |-> ms]
InvalidDate == [valid |-> FALSE, ms |-> 0]

\* Mutant: the progress ratio divides by the number of points.
PointTimeByCount(departureTime, totalDurationSeconds, index, totalPoints) ==
    Date(departureTime + (totalDurationSeconds * 1000 * index) \div totalPoints)

\* progressRatio, secondsOffset and pointTime of getWeatherForRoute for the
\* point at 0-based index, in milliseconds.  With one point the ratio is
\* 0 / 0 = NaN and the Date is invalid.  The time value of a Date is a whole
\* number of milliseconds: the constructor drops the fraction.
PointTime(departureTime, totalDurationSeconds, index, totalPoints) ==
    IF totalPoints - 1 = 0 THEN InvalidDate
    ELSE Date(departureTime
              + (totalDurationSeconds * 1000 * index) \div (totalPoints - 1))

\* 1000 * 60 * 60
MsPerHour == 3600000

MathMax(a, b) == IF a >= b THEN a ELSE b

MathMin(a, b) == IF a <= b THEN a ELSE b

NoHourIndex == [done |-> FALSE, valid |-> FALSE, value |-> 0]

\* Mutant: the index is clamped to the number of entries.
HourIndexToLength(pointTimeMs, dataStartTime, length) ==
    IF length = 0 THEN [done |-> TRUE, valid |-> FALSE, value |-> 0]
    ELSE LET hours == (pointTimeMs - dataStartTime) \div MsPerHour
         IN  [done |-> TRUE, valid |-> TRUE,
              value |-> IF hours < 0 THEN 0
                        ELSE IF hours > length THEN length ELSE hours]

\* hoursSinceStart of getWeatherForRoute: Math.floor of the quotient.
HoursSinceStart(pointTimeMs, dataStartTime) ==
    (pointTimeMs - dataStartTime) \div MsPerHour

\* hourIndex of getWeatherForRoute for a response of `length` hourly entries
\* whose first timestamp is dataStartTime.  With no entry time[0] is
\* undefined, dataStartTime is an Invalid Date and the index is NaN.
HourIndex(pointTimeMs, dataStartTime, length) ==
    IF length = 0 THEN [done |-> TRUE, valid |-> FALSE, value |-> 0]
    ELSE [done |-> TRUE, valid |-> TRUE,
          value |-> MathMax(0, MathMin(HoursSinceStart(pointTimeMs, dataStartTime),
                                       length - 1))]

\* The state of one forecast request of getWeatherForRoute:
\*   "pending"  fetch issued, no response yet
\*   "ok"       response with hourly entries: the fields of the sample are read
\*   "empty"    response with zero hourly entries: hourIndex is NaN and every
\*              field read is undefined
\*   "failed"   fetch rejected or response not ok: the callback throws
\*   "threw"    the callback threw before fetch (toISOString of an Invalid Date)
RequestStates == {"pending", "ok", "empty", "failed", "threw"}

\* What the callback of routePoints.map returns for point k (1-based).
WeatherSample(point, request, time) ==
    [coords |-> point.coords, defined |-> (request = "ok"), time |-> time]

\* Mutant: waits for every promise and ignores rejections (allSettled).
PromiseAllSettled(requests) ==
    IF \E k \in DOMAIN requests : requests[k] = "pending" THEN "pending"
    ELSE "fulfilled"

\* Promise.all over the per-point promises.
PromiseAll(requests) ==
    IF \E k \in DOMAIN requests : requests[k] \in {"failed", "threw"} THEN "rejected"
    ELSE IF \E k \in DOMAIN requests : requests[k] = "pending" THEN "pending"
    ELSE "fulfilled"

\* The sessionStorage slot 'cachedRoute'.
\*   kind "absent"   getItem returns null
\*   kind "garbage"  a string JSON.parse rejects
\*   kind "json"     a string JSON.parse accepts; weatherData.defined is FALSE
\*                   when the payload has no weatherData array
CacheEntry(kind, route, weatherDefined, weatherData, addresses, departureTime) ==
    [kind |-> kind, route |-> route,
     weatherData |-> [defined |-> weatherDefined, items |-> weatherData],
     addresses |-> addresses, departureTime |-> departureTime]

Absent == CacheEntry("absent", NoRoute, FALSE, << >>, NullAddresses, 0)

Garbage == CacheEntry("garbage", NoRoute, FALSE, << >>, NullAddresses, 0)

\* JSON.stringify of { route, weatherData, addresses, departureTime }: a Date
\* becomes its ISO string, an undefined field is dropped, null stays null.
JsonStringify(route, weatherData, addresses, departureTime) ==
    CacheEntry("json", route, TRUE,
               [k \in DOMAIN weatherData |->
                   [coords |-> weatherData[k].coords,
                    defined |-> weatherData[k].defined,
                    time |-> weatherData[k].time.ms]],
               addresses, departureTime)

\* weatherData.forEach(w => w.time = new Date(w.time)) on the parsed payload
ParsedWeather(entry) ==
    [k \in DOMAIN entry.weatherData.items |->
        [coords |-> entry.weatherData.items[k].coords,
         defined |-> entry.weatherData.items[k].defined,
         time |-> Date(entry.weatherData.items[k].time)]]

\* Mutant: the write keeps the addresses of the entry already in the slot.
SaveRouteToCacheMerged(slot, route, weatherData, addresses, departureTime, ok) ==
    IF ~ok THEN slot
    ELSE IF slot.kind = "json"
      THEN JsonStringify(route, weatherData, slot.addresses, departureTime)
      ELSE JsonStringify(route, weatherData, addresses, departureTime)

\* saveRouteToCache: the slot after the call.  ok is FALSE when setItem
\* throws (quota exceeded, storage disabled): the error is logged and the
\* slot keeps what it held.
saveRouteToCache(slot, route, weatherData, addresses, departureTime, ok) ==
    IF ok THEN JsonStringify(route, weatherData, addresses, departureTime)
    ELSE slot

\* The segment loops of clearMap and displayRouteWithWeather remove the ids
\* route-segment-0 .. route-segment-99.
RemoveSegments(segments) == {i \in segments : i >= ClearLimit}

\* displayRouteWithWeather(route, weatherData) on a map holding `segments`:
\* the ids on the map afterwards and whether the call threw.  It throws when
\* route is undefined (route.geometry), when the style is not loaded
\* (addSource), and when an id to add is still on the map (addSource).
RECURSIVE AddSegments(_, _, _)
AddSegments(segments, i, n) ==
    IF i > n - 2 THEN [segments |-> segments, threw |-> FALSE]
    ELSE IF i \in segments THEN [segments |-> segments, threw |-> TRUE]
    ELSE AddSegments(segments \cup {i}, i + 1, n)

displayRouteWithWeather(mapState, segments, route, weatherData) ==
    LET cleared == RemoveSegments(segments)
    IN  IF ~route.defined THEN [segments |-> cleared, threw |-> TRUE]
        ELSE IF Len(weatherData) >= 2 /\ mapState # "loaded"
          THEN [segments |-> cleared, threw |-> TRUE]
        ELSE AddSegments(cleared, 0, Len(weatherData))

\* toLocaleTimeString with hour and minute: the minute of the day.
TimeOfDay(time) == (time.ms \div 60000) % 1440

\* Mutant: the feature is built from the end sample of the pair.
SegmentFeatureFromEnd(startWeather, endWeather) ==
    [color |-> getWeatherColor(endWeather.weatherCode, endWeather.precipitation),
     weatherCode |-> endWeather.weatherCode,
     temperature |-> endWeather.temperature,
     precipitation |-> endWeather.precipitation,
     windSpeed |-> endWeather.windSpeed,
     time |-> TimeOfDay(endWeather.time),
     description |-> getWeatherDescription(endWeather.weatherCode),
     ends |-> <<startWeather.coords, endWeather.coords>>]

\* The source and layer displayRouteWithWeather adds for one pair of samples:
\* the line color, the properties of the feature, and the two coordinates
\* its geometry runs between.
SegmentFeature(startWeather, endWeather) ==
    [color |-> getWeatherColor(startWeather.weatherCode, startWeather.precipitation),
     weatherCode |-> startWeather.weatherCode,
     temperature |-> startWeather.temperature,
     precipitation |-> startWeather.precipitation,
     windSpeed |-> startWeather.windSpeed,
     time |-> TimeOfDay(startWeather.time),
     description |-> getWeatherDescription(startWeather.weatherCode),
     ends |-> <<startWeather.coords, endWeather.coords>>]

\* The features of the segments a call of displayRouteWithWeather added,
\* given the ids on the map before and after it.
AddedFeatures(before, after, weatherData) ==
    [i \in {j \in 0..(Len(weatherData) - 2) :
                j \in after /\ j \notin RemoveSegments(before)} |->
        SegmentFeature(weatherData[i + 1], weatherData[i + 2])]

\* A mile position: the fraction num / den.  All positions of one call of
\* displayRouteInfo share the denominator weatherData.length - 1.
Mile(num, den) == [num |-> num, den |-> den]

\* Mutant: the position is measured from the end of the route.
DistanceFromEnd(index, length, total) ==
    Mile((length - 1 - index) * total, length - 1)

\* distanceAtPoint of displayRouteInfo for the sample at 0-based index.
DistanceAtPoint(index, length, total) == Mile(index * total, length - 1)

\* currentBadWeather: null, or the alert being built
NoAlert == [open |-> FALSE, condition |-> "", startMile |-> Mile(0, 1),
            startTime |-> InvalidDate]

OpenAlert(category, distanceAtPoint, time) ==
    [open |-> TRUE, condition |-> category, startMile |-> distanceAtPoint,
     startTime |-> time]

\* The alert pushed once endMile and endTime are set on currentBadWeather.
ClosedAlert(currentBadWeather, endMile, endTime) ==
    [condition |-> currentBadWeather.condition,
     startMile |-> currentBadWeather.startMile,
     startTime |-> currentBadWeather.startTime,
     endMile |-> endMile, endTime |-> endTime]

\* Mutant: a change from one bad category to another does not close the
\* alert being built.
RECURSIVE AlertLoopMerging(_, _, _, _, _)
AlertLoopMerging(weatherData, total, k, currentBadWeather, out) ==
    IF k > Len(weatherData)
      THEN [alerts |-> out, currentBadWeather |-> currentBadWeather]
    ELSE LET category == getWeatherCategory(weatherData[k].weatherCode)
             isBad == category # "none"
             distanceAtPoint == DistanceAtPoint(k - 1, Len(weatherData), total)
         IN  IF isBad /\ ~currentBadWeather.open
               THEN AlertLoopMerging(weatherData, total, k + 1,
                              OpenAlert(category, distanceAtPoint, weatherData[k].time),
                              out)
             ELSE IF ~isBad /\ currentBadWeather.open
               THEN AlertLoopMerging(weatherData, total, k + 1, NoAlert,
                              Append(out, ClosedAlert(currentBadWeather, distanceAtPoint,
                                                      weatherData[k - 1].time)))
             ELSE AlertLoopMerging(weatherData, total, k + 1, currentBadWeather, out)

\* weatherData.forEach of displayRouteInfo from the sample at 1-based k on.
RECURSIVE AlertLoop(_, _, _, _, _)
AlertLoop(weatherData, total, k, currentBadWeather, out) ==
    IF k > Len(weatherData)
      THEN [alerts |-> out, currentBadWeather |-> currentBadWeather]
    ELSE LET category == getWeatherCategory(weatherData[k].weatherCode)
             isBad == category # "none"
             distanceAtPoint == DistanceAtPoint(k - 1, Len(weatherData), total)
         IN  IF isBad /\ ~currentBadWeather.open
               THEN AlertLoop(weatherData, total, k + 1,
                              OpenAlert(category, distanceAtPoint, weatherData[k].time),
                              out)
             ELSE IF ~isBad /\ currentBadWeather.open
               THEN AlertLoop(weatherData, total, k + 1, NoAlert,
                              Append(out, ClosedAlert(currentBadWeather, distanceAtPoint,
                                                      weatherData[k - 1].time)))
             ELSE IF isBad /\ currentBadWeather.open
                     /\ category # currentBadWeather.condition
               THEN AlertLoop(weatherData, total, k + 1,
                              OpenAlert(category, distanceAtPoint, weatherData[k].time),
                              Append(out, ClosedAlert(currentBadWeather, distanceAtPoint,
                                                      weatherData[k - 1].time)))
             ELSE AlertLoop(weatherData, total, k + 1, currentBadWeather, out)

\* The alerts of displayRouteInfo(route, weatherData): none when every code
\* is at most 3, otherwise the loop and the closing of the final alert.
WeatherAlerts(weatherData, total) ==
    IF \A k \in DOMAIN weatherData : weatherData[k].weatherCode <= 3 THEN << >>
    ELSE LET loop == AlertLoop(weatherData, total, 1, NoAlert, << >>)
         IN  IF loop.currentBadWeather.open
               THEN Append(loop.alerts,
                           ClosedAlert(loop.currentBadWeather,
                                       Mile(total * (Len(weatherData) - 1),
                                            Len(weatherData) - 1),
                                       weatherData[Len(weatherData)].time))
               ELSE loop.alerts

NoComputation == [some |-> FALSE, entry |-> Absent]

\* Math.pow(lon - targetLon, 2) + Math.pow(lat - targetLat, 2).  The code
\* compares the square roots; on the grid the squares are whole numbers and
\* the square root keeps their order and their ties.
PlanarDistanceSquared(coord, targetCoord) ==
    (coord[1] - targetCoord[1]) * (coord[1] - targetCoord[1])
    + (coord[2] - targetCoord[2]) * (coord[2] - targetCoord[2])

\* Mutant: a later point at the same distance replaces the closest one.
RECURSIVE ClosestLoopLast(_, _, _, _, _)
ClosestLoopLast(coords, targetCoord, i, minDist, closestIdx) ==
    IF i >= Len(coords) THEN closestIdx
    ELSE LET dist == PlanarDistanceSquared(coords[i + 1], targetCoord)
         IN  IF minDist < 0 \/ dist <= minDist
               THEN ClosestLoopLast(coords, targetCoord, i + 1, dist, i)
               ELSE ClosestLoopLast(coords, targetCoord, i + 1, minDist, closestIdx)

FindClosestPointIndexLast(coords, targetCoord) ==
    ClosestLoopLast(coords, targetCoord, 0, -1, 0)

\* The loop of findClosestPointIndex from the 0-based index i on; minDist < 0
\* stands for Infinity.
RECURSIVE ClosestLoop(_, _, _, _, _)
ClosestLoop(coords, targetCoord, i, minDist, closestIdx) ==
    IF i >= Len(coords) THEN closestIdx
    ELSE LET dist == PlanarDistanceSquared(coords[i + 1], targetCoord)
         IN  IF minDist < 0 \/ dist < minDist
               THEN ClosestLoop(coords, targetCoord, i + 1, dist, i)
               ELSE ClosestLoop(coords, targetCoord, i + 1, minDist, closestIdx)

\* findClosestPointIndex: a 0-based index into coords
findClosestPointIndex(coords, targetCoord) ==
    ClosestLoop(coords, targetCoord, 0, -1, 0)

\* Array.prototype.slice(begin, end) for 0 <= begin and 0 <= end
Slice(array, begin, end) ==
    LET stop == IF end > Len(array) THEN Len(array) ELSE end
    IN  IF begin >= stop THEN << >>
        ELSE [k \in 1..(stop - begin) |-> array[begin + k]]

\* startIdx, endIdx and segmentCoords of every pass of the segment loop of
\* displayRouteWithWeather over the samples at sampleCoords
SegmentGeometries(routeCoords, sampleCoords) ==
    [i \in 1..(Len(sampleCoords) - 1) |->
        LET startIdx == findClosestPointIndex(routeCoords, sampleCoords[i])
            endIdx == findClosestPointIndex(routeCoords, sampleCoords[i + 1])
        IN  [startIdx |-> startIdx, endIdx |-> endIdx,
             segmentCoords |-> Slice(routeCoords, startIdx, endIdx + 1)]]

NoGeometry == [done |-> FALSE, segments |-> << >>]

Idle ==
    [pc |-> "idle", start |-> "", end |-> "", departureTime |-> 0,
     startCoords |-> << >>, endCoords |-> << >>, route |-> NoRoute,
     routePoints |-> << >>, requests |-> << >>,
     failedAt |-> "", rendered |-> 0, cached |-> FALSE, errors |-> 0,
     computed |-> NoComputation]

Running == {"geocodeStart", "geocodeEnd", "route", "weather"}

Ended == {"done", "failed", "crashed"}

NoCallback == [pending |-> FALSE, route |-> NoRoute, weatherData |-> << >>]


----------------------------------------------------------------------------
(* Initial states *)

SamplerIdle ==
    /\ coordinates = << >>
    /\ intervalKm = SampleIntervalKm
    /\ points = << >>
    /\ segmentGeometry = NoGeometry

ClassifierIdle ==
    /\ weatherCode = 0
    /\ precipitation = 0
    /\ classification = Unclassified

ForecastIdle ==
    /\ arrival = 0
    /\ hourlyStart = 0
    /\ hourlyLength = 1
    /\ hourIndex = NoHourIndex

ProjectorIdle ==
    /\ departureDate = 0
    /\ routeDuration = 0
    /\ pointCount = 2
    /\ pointTimes = << >>
    /\ ForecastIdle

DisplayIdle ==
    /\ samples = << >>
    /\ totalDistance = 0
    /\ layers = {}
    /\ features = << >>
    /\ alerts = << >>
    /\ displayed = FALSE
    /\ mapCleared = FALSE

\* The script has run
ScriptRun ==
    /\ mapSegments = {}
    /\ loading = [f \in Forms |-> FALSE]
    /\ submitDisabled = [f \in Forms |-> FALSE]
    /\ errorShown = [f \in Forms |-> FALSE]
    /\ clearBtnVisible = FALSE
    /\ currentRouteAddresses = InitialAddresses
    /\ currentRouteData = NoRouteData
    /\ isRestoringRoute = FALSE
    /\ rafCallback = NoCallback
    /\ inv = [f \in Forms |-> Idle]
    /\ savedRoutes = << >>
    /\ inputModalCallback = FALSE
    /\ overlapped = FALSE
    /\ lastWritten = NoComputation

\* The script has run, loadConfig has not answered yet.
AppInit ==
    /\ map = "null"
    /\ ScriptRun

----------------------------------------------------------------------------
(* Sampler and classifier harnesses *)

Sample ==
    /\ points = << >>
    /\ points' = sampleRoutePoints(coordinates, intervalKm)
    /\ UNCHANGED <<coordinates, intervalKm, segmentGeometry, classVars, projVars,
                   displayVars, appVars>>

\* The segment geometries displayRouteWithWeather builds for the polyline
\* and the samples of its route points (sample k carries points[k].coords).
Segment ==
    /\ points # << >>
    /\ ~segmentGeometry.done
    /\ segmentGeometry' =
         [done |-> TRUE,
          segments |-> SegmentGeometries(coordinates,
                                         [k \in DOMAIN points |-> points[k].coords])]
    /\ UNCHANGED <<coordinates, intervalKm, points, classVars, projVars, displayVars,
                   appVars>>

Classify ==
    /\ ~classification.done
    /\ classification' =
         [done |-> TRUE,
          color |-> getWeatherColor(weatherCode, precipitation),
          description |-> getWeatherDescription(weatherCode),
          category |-> getWeatherCategory(weatherCode)]
    /\ UNCHANGED <<weatherCode, precipitation, samplerVars, projVars, displayVars,
                   appVars>>

\* The pointTime of every route point of one call of getWeatherForRoute.
Project ==
    /\ pointTimes = << >>
    /\ pointTimes' = [k \in 1..pointCount |->
                        PointTime(departureDate, routeDuration, k - 1, pointCount)]
    /\ UNCHANGED <<departureDate, routeDuration, pointCount, arrival, hourlyStart,
                   hourlyLength, hourIndex, samplerVars, classVars, displayVars,
                   appVars>>

\* The hour selected in one forecast response of getWeatherForRoute.
SelectHour ==
    /\ ~hourIndex.done
    /\ hourIndex' = HourIndex(arrival, hourlyStart, hourlyLength)
    /\ UNCHANGED <<departureDate, routeDuration, pointCount, pointTimes, arrival,
                   hourlyStart, hourlyLength, samplerVars, classVars, displayVars,
                   appVars>>

\* displayRouteWithWeather(route, weatherData) and then
\* displayRouteInfo(route, weatherData), as the pipeline and the restore
\* callback call them, on a loaded map holding `layers`.
Display ==
    /\ ~displayed
    /\ LET route == Route(RoutePolyline(2), Geocode("a"), Geocode("b"))
           shown == displayRouteWithWeather("loaded", layers, route, samples)
       IN  /\ layers' = shown.segments
           /\ features' = AddedFeatures(layers, shown.segments, samples)
           /\ alerts' = IF shown.threw THEN alerts
                        ELSE WeatherAlerts(samples, totalDistance)
    /\ displayed' = TRUE
    /\ UNCHANGED <<samples, totalDistance, mapCleared, samplerVars, classVars, projVars,
                   appVars>>

\* clearMap() on a loaded map holding `layers`.
ClearMap ==
    /\ ~mapCleared
    /\ ~displayed
    /\ layers' = RemoveSegments(layers)
    /\ mapCleared' = TRUE
    /\ UNCHANGED <<samples, totalDistance, features, alerts, displayed, samplerVars,
                   classVars, projVars, appVars>>

----------------------------------------------------------------------------
(* Application: map start-up *)

\* loadConfig answered: initializeMap creates the map object.
initializeMap ==
    /\ map = "null"
    /\ map' = "created"
    /\ UNCHANGED <<mapSegments, uiVars, sessionStorage, currentRouteAddresses,
                   currentRouteData, isRestoringRoute, rafCallback, inv, histVars>>
    /\ UNCHANGED <<harnessVars, savedVars>>

SomeRunning == \E f \in Forms : inv[f].pc \in Running

\* The body of restoreRouteFromCache, called with the map in state mapState.
\* It sets sessionStorage, currentRouteAddresses, isRestoringRoute,
\* rafCallback, mapSegments (and the history variable overlapped).
restoreRouteFromCache(mapState) ==
    IF \/ isRestoringRoute
       \/ sessionStorage.kind = "absent"
       \/ mapState = "null"
       \/ 0 \in mapSegments
       \/ mapState # "loaded"
      THEN UNCHANGED <<sessionStorage, currentRouteAddresses, isRestoringRoute,
                       rafCallback, mapSegments, overlapped>>
    ELSE /\ overlapped' = (overlapped \/ SomeRunning)
         /\ IF \/ sessionStorage.kind = "garbage"
               \/ ~sessionStorage.weatherData.defined
              THEN \* JSON.parse or weatherData.forEach throws
                   /\ sessionStorage' = Absent
                   /\ isRestoringRoute' = FALSE
                   /\ UNCHANGED <<currentRouteAddresses, rafCallback, mapSegments>>
            ELSE IF sessionStorage.addresses.isNull
              THEN \* addresses.start throws, after the assignment
                   /\ currentRouteAddresses' = sessionStorage.addresses
                   /\ sessionStorage' = Absent
                   /\ isRestoringRoute' = FALSE
                   /\ UNCHANGED <<rafCallback, mapSegments>>
            ELSE /\ isRestoringRoute' = TRUE
                 /\ currentRouteAddresses' = sessionStorage.addresses
                 /\ mapSegments' = RemoveSegments(mapSegments)
                 /\ rafCallback' = [pending |-> TRUE,
                                    route |-> sessionStorage.route,
                                    weatherData |-> ParsedWeather(sessionStorage)]
                 /\ UNCHANGED sessionStorage

\* map.on('load'): the map is loaded and restoreRouteFromCache is called.
MapLoad ==
    /\ map = "created"
    /\ map' = "loaded"
    /\ restoreRouteFromCache("loaded")
    /\ UNCHANGED <<uiVars, currentRouteData, inv, lastWritten>>
    /\ UNCHANGED <<harnessVars, savedVars>>

\* The other callers of restoreRouteFromCache: the styledata handler, the
\* visibilitychange handler, the load-handler interval and its own retry
\* timer; all of them run only once the map object exists.
RestoreTrigger ==
    /\ map # "null"
    /\ restoreRouteFromCache(map)
    /\ UNCHANGED <<map, uiVars, currentRouteData, inv, lastWritten>>
    /\ UNCHANGED <<harnessVars, savedVars>>

\* Mutant: the guard is released after a successful rendering only.
RestoreFrameKeepsGuardOnError ==
    /\ rafCallback.pending
    /\ LET r == displayRouteWithWeather(map, mapSegments, rafCallback.route,
                                        rafCallback.weatherData)
       IN  /\ mapSegments' = r.segments
           /\ IF r.threw
                THEN UNCHANGED <<currentRouteData, clearBtnVisible, isRestoringRoute>>
                ELSE /\ currentRouteData' = [isNull |-> FALSE, route |-> rafCallback.route]
                     /\ clearBtnVisible' = TRUE
                     /\ isRestoringRoute' = FALSE
    /\ rafCallback' = NoCallback
    /\ UNCHANGED <<map, loading, submitDisabled, errorShown, sessionStorage,
                   currentRouteAddresses, inv, histVars>>
    /\ UNCHANGED <<harnessVars, savedVars>>

\* The requestAnimationFrame callback of restoreRouteFromCache.
RestoreFrame ==
    /\ rafCallback.pending
    /\ LET r == displayRouteWithWeather(map, mapSegments, rafCallback.route,
                                        rafCallback.weatherData)
       IN  /\ mapSegments' = r.segments
           /\ IF r.threw
                THEN UNCHANGED <<currentRouteData, clearBtnVisible>>
                ELSE /\ currentRouteData' = [isNull |-> FALSE, route |-> rafCallback.route]
                     /\ clearBtnVisible' = TRUE
    /\ isRestoringRoute' = FALSE
    /\ rafCallback' = NoCallback
    /\ UNCHANGED <<map, loading, submitDisabled, errorShown, sessionStorage,
                   currentRouteAddresses, inv, histVars>>
    /\ UNCHANGED <<harnessVars, savedVars>>


----------------------------------------------------------------------------
(* Application: the pipeline getRouteWithWeather, one invocation per form *)

\* The record of an invocation that has returned: its arguments and local
\* variables are gone; what is kept is what it did (its requests, the step it
\* failed at, the segments it added, its cache write, its error messages,
\* the result it computed).
Returned(invocation, pc) ==
    [Idle EXCEPT !.pc = pc, !.requests = invocation.requests,
                 !.failedAt = invocation.failedAt, !.rendered = invocation.rendered,
                 !.cached = invocation.cached, !.errors = invocation.errors,
                 !.computed = invocation.computed]

\* The catch block: showLoading(false), showError(message).
Caught(f, invocation, step) ==
    /\ inv' = [inv EXCEPT ![f] = Returned([invocation EXCEPT !.failedAt = step,
                                                             !.errors = @ + 1],
                                          "failed")]
    /\ loading' = [loading EXCEPT ![f] = FALSE]
    /\ submitDisabled' = [submitDisabled EXCEPT ![f] = FALSE]
    /\ errorShown' = [errorShown EXCEPT ![f] = TRUE]

\* The record of a returned invocation is kept until the next one starts or
\* the route is cleared.
Forgotten == [g \in Forms |-> IF inv[g].pc \in Ended THEN Idle ELSE inv[g]]

\* getRouteWithWeather(start, end, departureTime, isMobile) up to the first
\* await: showLoading(true), hideError, hideRouteInfo, clearMap, fetch of the
\* first geocoding request.  clearMap is called before the try block: with
\* no map object map.getLayer throws and the promise of the invocation is
\* rejected.
getRouteWithWeather(f, start, end, departureTime) ==
    /\ loading' = [loading EXCEPT ![f] = TRUE]
    /\ submitDisabled' = [submitDisabled EXCEPT ![f] = TRUE]
    /\ errorShown' = [errorShown EXCEPT ![f] = FALSE]
    /\ IF map = "null"
         THEN /\ inv' = [Forgotten EXCEPT ![f] = Returned(Idle, "crashed")]
              /\ UNCHANGED mapSegments
         ELSE /\ inv' = [Forgotten EXCEPT ![f] =
                           [Idle EXCEPT !.pc = "geocodeStart", !.start = start,
                                        !.end = end, !.departureTime = departureTime]]
              /\ mapSegments' = RemoveSegments(mapSegments)
    /\ overlapped' = (overlapped \/ SomeRunning \/ rafCallback.pending)
    /\ UNCHANGED <<map, clearBtnVisible, sessionStorage, currentRouteAddresses,
                   currentRouteData, isRestoringRoute, rafCallback,
                   lastWritten>>
    /\ UNCHANGED <<harnessVars, savedVars>>

\* The submit handler of a form, reached through its submit button.
Submit(f, start, end, departureTime) ==
    /\ ~submitDisabled[f]
    /\ inv[f].pc \notin Running
    /\ getRouteWithWeather(f, start, end, departureTime)

\* Mutant: the directions request is issued as soon as the start location
\* is geocoded.
GeocodeResponseRoutesEarly(f, outcome) ==
    /\ inv[f].pc \in {"geocodeStart", "geocodeEnd"}
    /\ IF outcome # "ok"
         THEN /\ Caught(f, inv[f], "geocode")
              /\ UNCHANGED currentRouteAddresses
       ELSE /\ inv' = [inv EXCEPT ![f].pc = "route",
                                  ![f].startCoords = Geocode(inv[f].start)]
            /\ currentRouteAddresses' =
                 Addresses(inv[f].start, inv[f].end, Geocode(inv[f].start),
                           inv[f].endCoords)
            /\ UNCHANGED <<loading, submitDisabled, errorShown>>
    /\ UNCHANGED <<map, mapSegments, clearBtnVisible, sessionStorage, currentRouteData,
                   isRestoringRoute, rafCallback, histVars>>
    /\ UNCHANGED <<harnessVars, savedVars>>

\* The continuation after a geocoding response (geocodeLocation).  After the
\* second one currentRouteAddresses is assigned and the directions request
\* is issued.
GeocodeResponse(f, outcome) ==
    /\ inv[f].pc \in {"geocodeStart", "geocodeEnd"}
    /\ IF outcome # "ok"
         THEN /\ Caught(f, inv[f], "geocode")
              /\ UNCHANGED currentRouteAddresses
       ELSE IF inv[f].pc = "geocodeStart"
         THEN /\ inv' = [inv EXCEPT ![f].pc = "geocodeEnd",
                                    ![f].startCoords = Geocode(inv[f].start)]
              /\ UNCHANGED <<loading, submitDisabled, errorShown, currentRouteAddresses>>
       ELSE /\ inv' = [inv EXCEPT ![f].pc = "route",
                                  ![f].endCoords = Geocode(inv[f].end)]
            /\ currentRouteAddresses' =
                 Addresses(inv[f].start, inv[f].end, inv[f].startCoords,
                           Geocode(inv[f].end))
            /\ UNCHANGED <<loading, submitDisabled, errorShown>>
    /\ UNCHANGED <<map, mapSegments, clearBtnVisible, sessionStorage, currentRouteData,
                   isRestoringRoute, rafCallback, histVars>>
    /\ UNCHANGED <<harnessVars, savedVars>>

\* The per-point requests getWeatherForRoute starts for its route points: the
\* callback of routePoints.map runs for every point up to its fetch, and
\* throws before it when pointTime.toISOString() meets an Invalid Date.
StartRequests(routePoints, departureTime, totalDurationSeconds) ==
    [k \in DOMAIN routePoints |->
        IF PointTime(departureTime, totalDurationSeconds, k - 1, Len(routePoints)).valid
          THEN "pending" ELSE "threw"]

\* Mutant: the route is drawn as one provisional segment as soon as the
\* directions response arrives, before the weather is known.
RouteResponseRendersEarly(f, outcome, n) ==
    /\ inv[f].pc = "route"
    /\ IF outcome # "ok"
         THEN /\ Caught(f, inv[f], "route")
              /\ UNCHANGED mapSegments
         ELSE LET route == Route(RoutePolyline(n), inv[f].startCoords, inv[f].endCoords)
                  routePoints == sampleRoutePoints(route.coordinates, SampleIntervalKm)
                  requests == StartRequests(routePoints, inv[f].departureTime,
                                            route.duration)
                  started == [inv[f] EXCEPT !.route = route,
                                            !.routePoints = routePoints,
                                            !.requests = requests]
              IN  /\ mapSegments' = AddSegments(RemoveSegments(mapSegments), 0, 2).segments
                  /\ IF PromiseAll(requests) = "rejected"
                       THEN Caught(f, started, "weather")
                       ELSE /\ inv' = [inv EXCEPT ![f] = [started EXCEPT !.pc = "weather"]]
                            /\ UNCHANGED <<loading, submitDisabled, errorShown>>
    /\ UNCHANGED <<map, clearBtnVisible, sessionStorage,
                   currentRouteAddresses, currentRouteData, isRestoringRoute,
                   rafCallback, histVars>>
    /\ UNCHANGED <<harnessVars, savedVars>>

\* The continuation after the directions response (getRoute): on a route,
\* sampleRoutePoints and the start of getWeatherForRoute.  n = 0 stands for a
\* response without a route.
RouteResponse(f, outcome, n) ==
    /\ inv[f].pc = "route"
    /\ IF outcome # "ok"
         THEN Caught(f, inv[f], "route")
         ELSE LET route == Route(RoutePolyline(n), inv[f].startCoords, inv[f].endCoords)
                  routePoints == sampleRoutePoints(route.coordinates, SampleIntervalKm)
                  requests == StartRequests(routePoints, inv[f].departureTime,
                                            route.duration)
                  started == [inv[f] EXCEPT !.route = route,
                                            !.routePoints = routePoints,
                                            !.requests = requests]
              IN  IF PromiseAll(requests) = "rejected"
                    THEN Caught(f, started, "weather")
                    ELSE /\ inv' = [inv EXCEPT ![f] = [started EXCEPT !.pc = "weather"]]
                         /\ UNCHANGED <<loading, submitDisabled, errorShown>>
    /\ UNCHANGED <<map, mapSegments, clearBtnVisible, sessionStorage,
                   currentRouteAddresses, currentRouteData, isRestoringRoute,
                   rafCallback, histVars>>
    /\ UNCHANGED <<harnessVars, savedVars>>

\* Mutant: the samples are collected from the last request to the first.
WeatherDataReversed(invocation, requests) ==
    [k \in DOMAIN requests |->
        WeatherSample(invocation.routePoints[Len(requests) + 1 - k],
                      requests[Len(requests) + 1 - k],
                      PointTime(invocation.departureTime, invocation.route.duration,
                                Len(requests) - k, Len(requests)))]

\* The weatherData array getWeatherForRoute resolves with.
WeatherData(invocation, requests) ==
    [k \in DOMAIN requests |->
        WeatherSample(invocation.routePoints[k], requests[k],
                      PointTime(invocation.departureTime, invocation.route.duration,
                                k - 1, Len(requests)))]

\* Steps 5 and 6 and the rest of the try block, once getWeatherForRoute has
\* resolved: displayRouteWithWeather, displayRouteInfo, currentRouteData,
\* saveRouteToCache, showLoading(false).  storageOk: setItem does not throw.
Complete(f, invocation, requests, storageOk) ==
    LET weatherData == WeatherData(invocation, requests)
        shown == displayRouteWithWeather(map, mapSegments, invocation.route, weatherData)
        added == Cardinality(shown.segments \ RemoveSegments(mapSegments))
        withRequests == [invocation EXCEPT !.requests = requests, !.rendered = added]
        result == JsonStringify(invocation.route, weatherData,
                                Addresses(invocation.start, invocation.end,
                                          invocation.startCoords, invocation.endCoords),
                                invocation.departureTime)
    IN  /\ mapSegments' = shown.segments
        /\ IF shown.threw
             THEN /\ Caught(f, withRequests, "render")
                  /\ UNCHANGED <<clearBtnVisible, currentRouteData, sessionStorage,
                                 lastWritten>>
             ELSE /\ clearBtnVisible' = TRUE
                  /\ currentRouteData' = [isNull |-> FALSE, route |-> invocation.route]
                  /\ sessionStorage' =
                       saveRouteToCache(sessionStorage, invocation.route, weatherData,
                                        currentRouteAddresses,
                                        invocation.departureTime, storageOk)
                  /\ inv' = [inv EXCEPT ![f] =
                               Returned([withRequests EXCEPT
                                            !.cached = storageOk,
                                            !.computed = [some |-> TRUE,
                                                          entry |-> result]],
                                        "done")]
                  /\ loading' = [loading EXCEPT ![f] = FALSE]
                  /\ submitDisabled' = [submitDisabled EXCEPT ![f] = FALSE]
                  /\ UNCHANGED errorShown
                  /\ lastWritten' = IF storageOk THEN [some |-> TRUE, entry |-> result]
                                    ELSE lastWritten

\* The continuation after the response of the forecast request of point k.
\* outcome "ok": hourly entries; "empty": zero hourly entries; "failed": the
\* fetch rejected or the response is not ok.  Promise.all settles in the
\* same task: rejection runs the catch block, fulfilment the rest of the
\* pipeline.  Responses that arrive after a rejection settle promises nobody
\* awaits and are left out.
WeatherResponse(f, k, outcome) ==
    /\ inv[f].pc = "weather"
    /\ k \in DOMAIN inv[f].requests
    /\ inv[f].requests[k] = "pending"
    /\ LET requests == [inv[f].requests EXCEPT ![k] = outcome]
           settled == PromiseAll(requests)
       IN  IF settled = "pending"
             THEN /\ inv' = [inv EXCEPT ![f].requests = requests]
                  /\ UNCHANGED <<mapSegments, uiVars, sessionStorage, currentRouteData,
                                 lastWritten>>
           ELSE IF settled = "rejected"
             THEN /\ Caught(f, [inv[f] EXCEPT !.requests = requests], "weather")
                  /\ UNCHANGED <<mapSegments, clearBtnVisible, sessionStorage,
                                 currentRouteData, lastWritten>>
           ELSE \E storageOk \in BOOLEAN : Complete(f, inv[f], requests, storageOk)
    /\ UNCHANGED <<map, currentRouteAddresses, isRestoringRoute, rafCallback, overlapped>>
    /\ UNCHANGED <<harnessVars, savedVars>>

\* clearRoute, behind the clear-route button (shown by displayRouteInfo).
clearRoute ==
    /\ clearBtnVisible
    /\ sessionStorage' = Absent
    /\ IF map = "null"
         THEN UNCHANGED <<mapSegments, clearBtnVisible, currentRouteAddresses>>
         ELSE /\ mapSegments' = RemoveSegments(mapSegments)
              /\ clearBtnVisible' = FALSE
              /\ currentRouteAddresses' = NullAddresses
    /\ overlapped' = (overlapped \/ SomeRunning \/ rafCallback.pending)
    /\ lastWritten' = NoComputation
    /\ inv' = Forgotten
    /\ UNCHANGED <<map, loading, submitDisabled, errorShown, currentRouteData,
                   isRestoringRoute, rafCallback>>
    /\ UNCHANGED <<harnessVars, savedVars>>

----------------------------------------------------------------------------
(* Application: saved routes *)

\* The entry saveCurrentRoute builds; distance is a rendering of
\* route.distance and is not kept apart from route.
SavedRoute(id, name, addresses, routeData) ==
    [id |-> id, name |-> name, startAddress |-> addresses.start,
     endAddress |-> addresses.end, route |-> routeData.route]

\* Mutant: the filter keeps the entries with the id instead of the others.
FilterRoutesKeepingId(routes, routeId) ==
    SelectSeq(routes, LAMBDA r : r.id = routeId)

\* savedRoutes.filter(r => r.id !== routeId)
FilterRoutes(routes, routeId) ==
    SelectSeq(routes, LAMBDA r : r.id # routeId)

\* saveCurrentRoute, behind the save button (shown and hidden together with
\* the clear-route button): with a current route it opens the input modal
\* with the save callback; without one it alerts and changes nothing.
saveCurrentRoute ==
    /\ clearBtnVisible
    /\ ~inputModalCallback
    /\ ~currentRouteAddresses.isNull
    /\ ~currentRouteData.isNull
    /\ inputModalCallback' = TRUE
    /\ UNCHANGED <<map, mapSegments, uiVars, sessionStorage, currentRouteAddresses,
                   currentRouteData, isRestoringRoute, rafCallback, inv, savedRoutes,
                   histVars>>
    /\ UNCHANGED harnessVars

\* confirmInputModal with the trimmed text of the field.  With a name the
\* save callback runs: it reads currentRouteAddresses and currentRouteData
\* as they are now, takes Date.now() as id (never less than an earlier id),
\* appends the entry to the parsed list and writes the list back; then the
\* modal is closed.  When the callback throws (currentRouteAddresses is
\* null, or setItem throws) nothing is written and the modal stays open.
confirmInputModal(value, id, storageOk) ==
    /\ inputModalCallback
    /\ IF value = ""
         THEN /\ inputModalCallback' = FALSE
              /\ UNCHANGED savedRoutes
         ELSE /\ ~currentRouteAddresses.isNull
              /\ storageOk
              /\ \A k \in DOMAIN savedRoutes : savedRoutes[k].id <= id
              /\ Len(savedRoutes) < MaxSaved
              /\ savedRoutes' = Append(savedRoutes,
                                       SavedRoute(id, value, currentRouteAddresses,
                                                  currentRouteData))
              /\ inputModalCallback' = FALSE
    /\ UNCHANGED <<map, mapSegments, uiVars, sessionStorage, currentRouteAddresses,
                   currentRouteData, isRestoringRoute, rafCallback, inv, histVars>>
    /\ UNCHANGED harnessVars

\* closeInputModal, from a click outside the modal or its cancel button.
closeInputModal ==
    /\ inputModalCallback
    /\ inputModalCallback' = FALSE
    /\ UNCHANGED <<map, mapSegments, uiVars, sessionStorage, currentRouteAddresses,
                   currentRouteData, isRestoringRoute, rafCallback, inv, savedRoutes,
                   histVars>>
    /\ UNCHANGED harnessVars

\* deleteSavedRoute(routeId) from the delete button of a listed entry, the
\* confirm dialog answered with OK (with Cancel nothing changes).
deleteSavedRoute(routeId) ==
    /\ \E k \in DOMAIN savedRoutes : savedRoutes[k].id = routeId
    /\ savedRoutes' = FilterRoutes(savedRoutes, routeId)
    /\ UNCHANGED <<map, mapSegments, uiVars, sessionStorage, currentRouteAddresses,
                   currentRouteData, isRestoringRoute, rafCallback, inv,
                   inputModalCallback, histVars>>
    /\ UNCHANGED harnessVars

\* loadSavedRoute(routeId) from the load button of a listed entry: the first
\* entry with the id fills the form inputs and a submit event is dispatched
\* on the desktop form, whatever the state of its submit button.
loadSavedRoute(routeId, departureTime) ==
    /\ inv["desktop"].pc \notin Running
    /\ \E k \in DOMAIN savedRoutes :
          /\ savedRoutes[k].id = routeId
          /\ \A j \in 1..(k - 1) : savedRoutes[j].id # routeId
          /\ getRouteWithWeather("desktop", savedRoutes[k].startAddress,
                                 savedRoutes[k].endAddress, departureTime)

----------------------------------------------------------------------------
(* Specifications *)

\* sampleRoutePoints on every polyline and interval of the bounds
SamplerInit ==
    /\ coordinates \in Polylines
    /\ intervalKm \in 1..MaxIntervalKm
    /\ points = << >>
    /\ segmentGeometry = NoGeometry
    /\ ClassifierIdle
    /\ ProjectorIdle
    /\ DisplayIdle
    /\ AppInit
    /\ sessionStorage = Absent

SamplerNext == Sample

SpecSampler == SamplerInit /\ [][SamplerNext]_vars

\* sampleRoutePoints and then the segment geometries of
\* displayRouteWithWeather, on every polyline and interval of the bounds
GeometryNext ==
    \/ Sample
    \/ Segment

SpecGeometry == SamplerInit /\ [][GeometryNext]_vars

\* the classifier functions on every code of the bounds
ClassifierInit ==
    /\ weatherCode \in Codes
    /\ precipitation \in {0, 1}
    /\ classification = Unclassified
    /\ SamplerIdle
    /\ ProjectorIdle
    /\ DisplayIdle
    /\ AppInit
    /\ sessionStorage = Absent

ClassifierNext == Classify

SpecClassifier == ClassifierInit /\ [][ClassifierNext]_vars

\* the time projection of getWeatherForRoute on the departures, durations
\* and point counts of the bounds
Departures == {0, 1800000, 86399000}

Durations == {0, 1, 59, 60, 1800, 3600, 3601, 86400}

ProjectorInit ==
    /\ departureDate \in Departures
    /\ routeDuration \in Durations
    /\ pointCount \in 1..MaxPoints
    /\ pointTimes = << >>
    /\ ForecastIdle
    /\ SamplerIdle
    /\ ClassifierIdle
    /\ DisplayIdle
    /\ AppInit
    /\ sessionStorage = Absent

ProjectorNext == Project

SpecProjector == ProjectorInit /\ [][ProjectorNext]_vars

\* The hour selection on forecasts of 0..MaxHours hourly entries that start at
\* one of two midnights, for arrival times around the hour boundaries of the
\* forecast, before its first entry and long after its last.
HourlyStarts == {0, 24 * MsPerHour}

ArrivalOffsets ==
    {h * MsPerHour + d : h \in {-1, 0, 1, 2, 3, 48}, d \in {-1, 0, 1}}

ForecastInit ==
    /\ hourlyStart \in HourlyStarts
    /\ arrival \in {hourlyStart + o : o \in ArrivalOffsets}
    /\ hourlyLength \in 0..MaxHours
    /\ hourIndex = NoHourIndex
    /\ departureDate = 0
    /\ routeDuration = 0
    /\ pointCount = 2
    /\ pointTimes = << >>
    /\ SamplerIdle
    /\ ClassifierIdle
    /\ DisplayIdle
    /\ AppInit
    /\ sessionStorage = Absent

ForecastNext == SelectHour

SpecForecast == ForecastInit /\ [][ForecastNext]_vars

\* displayRouteWithWeather and displayRouteInfo on the sample sequences of
\* the bounds.  getWeatherForRoute resolves with one sample per route point
\* and never with fewer than two (with one point it throws), the times are
\* those it projects (10 minutes per sample here), and the map holds no
\* segment or the segments of an earlier route of LongRoute samples.
DisplayCodes == {2, 10, 48, 63}

HourlySample(k, n, code) ==
    [coords |-> <<0, k - 1>>, weatherCode |-> code, temperature |-> 50 + k,
     precipitation |-> k % 2, windSpeed |-> 2 * k,
     time |-> PointTime(0, 600 * (n - 1), k - 1, n)]

DisplayInit ==
    /\ \E n \in 2..MaxSamples, codes \in [1..MaxSamples -> DisplayCodes] :
          samples = [k \in 1..n |-> HourlySample(k, n, codes[k])]
    /\ totalDistance \in {0, 30}
    /\ layers \in {{}, 0..(LongRoute - 2)}
    /\ features = << >>
    /\ alerts = << >>
    /\ displayed = FALSE
    /\ mapCleared = FALSE
    /\ SamplerIdle
    /\ ClassifierIdle
    /\ ProjectorIdle
    /\ AppInit
    /\ sessionStorage = Absent

DisplayNext == Display

SpecDisplay == DisplayInit /\ [][DisplayNext]_vars

\* clearMap and a following displayRouteWithWeather, as at the start and
\* the end of a pipeline invocation, on a map that shows the segments of an
\* earlier route of up to LongRoute + 1 samples
ClearInit ==
    /\ \E n \in 2..3 : samples = [k \in 1..n |-> HourlySample(k, n, 2)]
    /\ totalDistance = 30
    /\ layers \in {0..(n - 2) : n \in 1..(LongRoute + 1)}
    /\ features = << >>
    /\ alerts = << >>
    /\ displayed = FALSE
    /\ mapCleared = FALSE
    /\ SamplerIdle
    /\ ClassifierIdle
    /\ ProjectorIdle
    /\ AppInit
    /\ sessionStorage = Absent

ClearNext ==
    \/ ClearMap
    \/ mapCleared /\ Display

SpecClear == ClearInit /\ [][ClearNext]_vars

\* the application from the first page load of a session, the user
\* submitting one form at a time
Init ==
    /\ SamplerIdle
    /\ ClassifierIdle
    /\ ProjectorIdle
    /\ DisplayIdle
    /\ AppInit
    /\ sessionStorage = Absent

Next ==
    \/ initializeMap
    \/ MapLoad
    \/ RestoreTrigger
    \/ RestoreFrame
    \/ \E f \in Forms, trip \in Trips :
         ~SomeRunning /\ Submit(f, trip[1], trip[2], trip[3])
    \/ \E f \in Forms, outcome \in {"ok", "notfound", "httperror"} :
         GeocodeResponse(f, outcome)
    \/ \E f \in Forms, outcome \in {"noroute", "httperror"} : RouteResponse(f, outcome, 0)
    \/ \E f \in Forms, n \in 1..MaxRouteVerts : RouteResponse(f, "ok", n)
    \/ \E f \in Forms, k \in 1..MaxRouteVerts, outcome \in {"ok", "empty", "failed"} :
         WeatherResponse(f, k, outcome)
    \/ clearRoute

Spec == Init /\ [][Next]_vars

\* the saved routes: the desktop form, the save, load and delete buttons
\* and the input modal, from the moment the map has loaded; the user acts
\* on the page only while the input modal is closed and no invocation runs
SavedInit ==
    /\ SamplerIdle
    /\ ClassifierIdle
    /\ ProjectorIdle
    /\ DisplayIdle
    /\ map = "loaded"
    /\ ScriptRun
    /\ sessionStorage = Absent

UserIdle == ~SomeRunning /\ ~inputModalCallback

SavedNext ==
    \/ RestoreTrigger
    \/ RestoreFrame
    \/ \E trip \in Trips : UserIdle /\ Submit("desktop", trip[1], trip[2], trip[3])
    \/ \E outcome \in {"ok", "notfound"} : GeocodeResponse("desktop", outcome)
    \/ RouteResponse("desktop", "noroute", 0)
    \/ RouteResponse("desktop", "ok", MaxRouteVerts)
    \/ \E k \in 1..MaxRouteVerts, outcome \in {"ok", "failed"} :
         WeatherResponse("desktop", k, outcome)
    \/ UserIdle /\ clearRoute
    \/ UserIdle /\ saveCurrentRoute
    \/ \E value \in {"", "n"}, id \in 1..MaxId, storageOk \in BOOLEAN :
         confirmInputModal(value, id, storageOk)
    \/ closeInputModal
    \/ \E routeId \in 1..MaxId : UserIdle /\ deleteSavedRoute(routeId)
    \/ \E routeId \in 1..MaxId, trip \in Trips :
         UserIdle /\ loadSavedRoute(routeId, trip[3])

SpecSaved == SavedInit /\ [][SavedNext]_vars

\* A page load that finds an entry left in the slot: one the application
\* wrote before the reload (n sampled points, n >= 2), or a payload that
\* JSON.parse rejects or that lacks route, weatherData or addresses.
WrittenEntry(n) ==
    LET route == Route(RoutePolyline(n), Geocode("a"), Geocode("b"))
        routePoints == sampleRoutePoints(route.coordinates, SampleIntervalKm)
    IN  JsonStringify(route,
                      [k \in DOMAIN routePoints |->
                          WeatherSample(routePoints[k], "ok",
                                        PointTime(0, route.duration, k - 1,
                                                  Len(routePoints)))],
                      Addresses("a", "b", Geocode("a"), Geocode("b")), 0)

LeftoverEntries ==
    LET written == {WrittenEntry(n) : n \in 2..MaxRouteVerts}
    IN  written
        \cup {Garbage}
        \cup {[e EXCEPT !.route = NoRoute] : e \in written}
        \cup {[e EXCEPT !.weatherData = [defined |-> FALSE, items |-> << >>]] :
                 e \in written}
        \cup {[e EXCEPT !.addresses = NullAddresses] : e \in written}

RestoreInit ==
    /\ SamplerIdle
    /\ ClassifierIdle
    /\ ProjectorIdle
    /\ DisplayIdle
    /\ AppInit
    /\ sessionStorage \in LeftoverEntries

SpecRestore == RestoreInit /\ [][Next]_vars

\* SpecRestore with the browser running every animation-frame callback it
\* has been handed (the page stays visible).
SpecRestoreFair == RestoreInit /\ [][Next]_vars /\ WF_vars(RestoreFrame)

\* Overlapping invocations: the desktop and the mobile form are submitted
\* while the invocation of the other form is waiting for a response, and the
\* restore triggers fire in between.  Every request succeeds.
OverlapNext ==
    \/ RestoreTrigger
    \/ RestoreFrame
    \/ \E f \in Forms, trip \in Trips : Submit(f, trip[1], trip[2], trip[3])
    \/ \E f \in Forms : GeocodeResponse(f, "ok")
    \/ \E f \in Forms : RouteResponse(f, "ok", MaxRouteVerts)
    \/ \E f \in Forms, k \in 1..MaxRouteVerts : WeatherResponse(f, k, "ok")

SpecOverlap == SavedInit /\ [][OverlapNext]_vars


----------------------------------------------------------------------------
(* Claims *)

\* C1: the distance recorded on every RoutePoint that sampleRoutePoints
\* emits is the length of the polyline from its first vertex to the vertex
\* of that point.
C1_DistanceIsCumulative ==
    points # << >> =>
        \A k \in DOMAIN points :
            points[k].distance = PathLength(coordinates, points[k].ref)

\* C2: with a single route point getWeatherForRoute uses progress ratio 0:
\* the sample's time is the departure time and no request of the invocation
\* throws on the division index / (totalPoints - 1).
C2_SinglePointUsesDeparture ==
    \A f \in Forms :
        Len(inv[f].requests) = 1 =>
            /\ inv[f].requests[1] # "threw"
            /\ inv[f].pc = "weather" =>
                 WeatherData(inv[f], inv[f].requests)[1].time
                    = Date(inv[f].departureTime)

\* C3: for every weather code with a row in the classifier table,
\* getWeatherCategory returns the category of that row.
C3_CategoryMatchesTable ==
    (classification.done /\ InTable(weatherCode)) =>
        classification.category = TableCategory(weatherCode)

\* C4: every weather code without a row in the classifier table gets the
\* unknown gray from getWeatherColor and the category none.
C4_UnlistedCodeIsUnknown ==
    (classification.done /\ ~InTable(weatherCode)) =>
        /\ classification.color = "#6b7280"
        /\ classification.category = "none"

\* C5: an invocation one of whose forecast responses had zero hourly entries
\* does not complete and renders no segment (getWeatherForRoute rejects
\* instead of returning a sample with undefined fields).
C5_EmptyForecastRejects ==
    \A f \in Forms :
        (\E k \in DOMAIN inv[f].requests : inv[f].requests[k] = "empty") =>
            /\ inv[f].pc # "done"
            /\ inv[f].rendered = 0

\* C6: an invocation one of whose forecast requests failed has ended in the
\* catch block at the weather step; it rendered no segment, wrote no cache
\* entry and computed no result, whatever the other requests did and in
\* whatever order they completed.
C6_FailedRequestFailsInvocation ==
    \A f \in Forms :
        (\E k \in DOMAIN inv[f].requests : inv[f].requests[k] = "failed") =>
            /\ inv[f].pc = "failed"
            /\ inv[f].failedAt = "weather"
            /\ inv[f].rendered = 0
            /\ ~inv[f].cached
            /\ ~inv[f].computed.some

\* C6 witness: a request failed after another request of the same
\* invocation had succeeded.
C6_Witness ==
    \E f \in Forms :
        /\ inv[f].pc = "failed"
        /\ \E k \in DOMAIN inv[f].requests : inv[f].requests[k] = "failed"
        /\ \E k \in DOMAIN inv[f].requests : inv[f].requests[k] = "ok"

\* C7: every invocation that has ended, in success or in any failure, has
\* left the loading indicator of its form hidden and its submit button
\* enabled, and after a failure exactly one error message is shown.
C7_EndedInvocationReleasesForm ==
    \A f \in Forms :
        inv[f].pc \in Ended =>
            /\ ~loading[f]
            /\ ~submitDisabled[f]
            /\ inv[f].pc # "done" => (inv[f].errors = 1 /\ errorShown[f])

Malformed(entry) ==
    \/ entry.kind = "garbage"
    \/ /\ entry.kind = "json"
       /\ \/ ~entry.route.defined
          \/ ~entry.weatherData.defined
          \/ entry.addresses.isNull

\* A step in which a restore attempt on a malformed slot ends: the call
\* itself when parsing fails, the animation-frame callback when rendering
\* fails.
RestoreFailsOnMalformed ==
    /\ Malformed(sessionStorage)
    /\ \/ /\ RestoreTrigger \/ MapLoad
          /\ ~isRestoringRoute
          /\ map' = "loaded"
          /\ 0 \notin mapSegments
          /\ rafCallback' = rafCallback
       \/ /\ RestoreFrame
          /\ ~rafCallback.route.defined

\* C9: when a restore attempt on a malformed cached session ends, the entry
\* is gone from session storage, isRestoringRoute is false and no segment is
\* rendered.
C9_MalformedEntryDiscarded ==
    [][RestoreFailsOnMalformed =>
          /\ sessionStorage'.kind = "absent"
          /\ ~isRestoringRoute'
          /\ mapSegments' = {}]_vars

\* C10: the first point sampleRoutePoints returns is the first coordinate of
\* the polyline and the last point is its last coordinate; a polyline of
\* one coordinate gives exactly one point, with distance 0.
C10_FirstAndLastIncluded ==
    points # << >> =>
        /\ points[1].coords = coordinates[1]
        /\ points[1].ref = 1
        /\ points[Len(points)].coords = coordinates[Len(coordinates)]
        /\ points[Len(points)].ref = Len(coordinates)
        /\ Len(coordinates) = 1 => (Len(points) = 1 /\ points[1].distance = 0)

\* C10 witness: a polyline of three vertices shorter than the interval: the
\* loop emits nothing and the last coordinate is added after it.
C10_Witness ==
    /\ points # << >>
    /\ Len(coordinates) = 3
    /\ PathLength(coordinates, 3) < intervalKm * 1000
    /\ coordinates[3] # coordinates[1]
    /\ Len(points) = 2

\* C11: in the output of sampleRoutePoints every pair of consecutive points
\* other than the final pair is separated by at least the interval, measured
\* as polyline length between the vertices of the two points.
C11_PairsSpanInterval ==
    points # << >> =>
        \A k \in 1..(Len(points) - 2) :
            PathLength(coordinates, points[k + 1].ref)
              - PathLength(coordinates, points[k].ref) >= intervalKm * 1000

\* C11 witness: the loop emitted two points at least the interval apart and
\* the last coordinate, closer than the interval to the point before it, was
\* added after the loop.
C11_Witness ==
    /\ Len(points) = 4
    /\ PathLength(coordinates, points[4].ref)
         - PathLength(coordinates, points[3].ref) < intervalKm * 1000
    /\ PathLength(coordinates, points[3].ref)
         - PathLength(coordinates, points[2].ref) >= intervalKm * 1000

\* C12: with more than one sample, the time of the sample at index i is
\* departure + totalDurationSeconds * i / (N - 1) (in whole milliseconds):
\* the first is the departure time, the last is departure + total duration,
\* the times never decrease with i, and a duration of 3600 s over 3 samples
\* gives departure, departure + 1800 s, departure + 3600 s.
C12_TimesLinearInIndex ==
    (pointTimes # << >> /\ pointCount > 1) =>
        /\ \A k \in 1..pointCount :
              /\ pointTimes[k].valid
              /\ (pointCount - 1) * (pointTimes[k].ms - departureDate)
                    <= routeDuration * 1000 * (k - 1)
              /\ routeDuration * 1000 * (k - 1)
                    < (pointCount - 1) * (pointTimes[k].ms - departureDate + 1)
        /\ pointTimes[1].ms = departureDate
        /\ pointTimes[pointCount].ms = departureDate + routeDuration * 1000
        /\ \A k \in 1..(pointCount - 1) : pointTimes[k].ms <= pointTimes[k + 1].ms
        /\ (routeDuration = 3600 /\ pointCount = 3) =>
              pointTimes[2].ms = departureDate + 1800 * 1000

\* C12 witness: the times of three samples of a route of 3600 s.
C12_Witness ==
    /\ pointTimes # << >>
    /\ routeDuration = 3600
    /\ pointCount = 3
    /\ pointTimes[3].ms = departureDate + 3600000

\* The category of the sample at 1-based k of the displayed sequence, the
\* first samples of its maximal runs of one bad category, the last sample of
\* the run that starts at a, and the start of the j-th run in route order.
SampleCategory(k) == getWeatherCategory(samples[k].weatherCode)

RunStarts ==
    {a \in 1..Len(samples) :
        /\ SampleCategory(a) # "none"
        /\ a = 1 \/ SampleCategory(a - 1) # SampleCategory(a)}

RunEnd(a) ==
    CHOOSE b \in a..Len(samples) :
        /\ \A k \in a..b : SampleCategory(k) = SampleCategory(a)
        /\ b = Len(samples) \/ SampleCategory(b + 1) # SampleCategory(a)

NthRunStart(j) ==
    CHOOSE a \in RunStarts : Cardinality({x \in RunStarts : x < a}) = j - 1

MileLeq(a, b) == a.num * b.den <= b.num * a.den

MileEq(a, b) == a.num * b.den = b.num * a.den

\* C13: displayRouteInfo produces exactly one alert per maximal run of
\* consecutive samples that share one category other than none, in route
\* order: the j-th alert has the category of the j-th run and starts at its
\* first sample, a change from one bad category to another closes one alert
\* and opens the next, and a sequence without bad category gives no alert.
C13_OneAlertPerRun ==
    displayed =>
        /\ Len(alerts) = Cardinality(RunStarts)
        /\ \A j \in 1..Len(alerts) :
              /\ alerts[j].condition = SampleCategory(NthRunStart(j))
              /\ alerts[j].startTime = samples[NthRunStart(j)].time

\* C13 witness: the categories Fog, Fog, Rain, Rain, Fog gave the three
\* alerts Fog, Rain, Fog.
C13_Witness ==
    /\ displayed
    /\ Len(samples) = 5
    /\ [k \in 1..5 |-> samples[k].weatherCode] = <<48, 48, 63, 63, 48>>
    /\ [j \in 1..Len(alerts) |-> alerts[j].condition] = <<"Fog", "Rain", "Fog">>

\* C14: the alerts are in chronological order and do not overlap: every
\* alert has startMile <= endMile and startTime <= endTime, and its endMile
\* and endTime are no later than the startMile and startTime of the next.
C14_AlertsOrdered ==
    displayed =>
        \A j \in 1..Len(alerts) :
            /\ MileLeq(alerts[j].startMile, alerts[j].endMile)
            /\ alerts[j].startTime.ms <= alerts[j].endTime.ms
            /\ j < Len(alerts) =>
                  /\ MileLeq(alerts[j].endMile, alerts[j + 1].startMile)
                  /\ alerts[j].endTime.ms <= alerts[j + 1].startTime.ms

\* C14 witness: on a route of 30 miles an alert that ends where the next
\* one starts, and a later one that ends at the end of the route.
C14_Witness ==
    /\ displayed
    /\ totalDistance = 30
    /\ Len(alerts) = 3
    /\ alerts[1].endMile = alerts[2].startMile
    /\ alerts[2].endMile.num < alerts[3].startMile.num

\* C15: after displayRouteWithWeather has rendered N samples the map holds
\* exactly the segments route-segment-0 .. route-segment-(N-2), one per
\* consecutive pair of samples.
C15_OneSegmentPerPair ==
    displayed => layers = 0..(Len(samples) - 2)

\* C16: the segment of the pair (i, i+1) takes its color, weather code,
\* description, temperature, precipitation, wind speed and time from sample
\* i, and there is no segment for the last sample.
C16_SegmentFromStartSample ==
    displayed =>
        /\ \A i \in DOMAIN features :
              LET w == samples[i + 1]
              IN  /\ features[i].color = getWeatherColor(w.weatherCode, w.precipitation)
                  /\ features[i].weatherCode = w.weatherCode
                  /\ features[i].description = getWeatherDescription(w.weatherCode)
                  /\ features[i].temperature = w.temperature
                  /\ features[i].precipitation = w.precipitation
                  /\ features[i].windSpeed = w.windSpeed
                  /\ features[i].time = TimeOfDay(w.time)
        /\ DOMAIN features = 0..(Len(samples) - 2)

\* C16 witness: a segment whose end sample has another code and another
\* color than its start sample.
C16_Witness ==
    /\ displayed
    /\ \E i \in DOMAIN features :
          /\ samples[i + 2].weatherCode # samples[i + 1].weatherCode
          /\ features[i].color
               # getWeatherColor(samples[i + 2].weatherCode, samples[i + 2].precipitation)
          /\ features[i].color = "#3b82f6"

\* C18: an invocation that fails at geocoding, routing or weather retrieval
\* leaves no trace: from its submit to its failure none of its steps changes
\* the cache slot, none of its steps after the submit changes the segments
\* on the map, it has rendered and cached nothing when it fails, and once
\* failed it takes no further step.
C18_FailedInvocationLeavesNoTrace ==
    [][\A f \in Forms :
          /\ (inv[f].pc \notin Running /\ inv'[f].pc \in Running) =>
                sessionStorage' = sessionStorage
          /\ ( /\ inv[f].pc \in Running
               /\ inv'[f] # inv[f]
               /\ \/ inv'[f].pc \in Running
                  \/ /\ inv'[f].pc = "failed"
                     /\ inv'[f].failedAt \in {"geocode", "route", "weather"} ) =>
                /\ sessionStorage' = sessionStorage
                /\ mapSegments' = mapSegments
                /\ inv'[f].rendered = 0
                /\ ~inv'[f].cached
                /\ ~inv'[f].computed.some
          /\ (inv[f].pc = "failed" /\ inv'[f] # inv[f]) =>
                inv'[f].pc \in {"idle", "geocodeStart", "crashed"}
      ]_vars

\* C18 witness: an invocation failed at the weather step, after geocoding,
\* routing and one forecast request had succeeded, while the slot held the
\* record of an earlier route.
C18_Witness ==
    /\ sessionStorage.kind = "json"
    /\ \E f \in Forms :
          /\ inv[f].pc = "failed"
          /\ inv[f].failedAt = "weather"
          /\ inv[f].rendered = 0
          /\ \E k \in DOMAIN inv[f].requests : inv[f].requests[k] = "ok"

\* C19: the saved-routes list changes only in a step of the save callback,
\* which appends exactly one entry and keeps the others, and in a step of a
\* confirmed delete of an id x, which removes the entries with id x and
\* keeps the others in order; no step of a pipeline invocation (a submit or
\* loadSavedRoute included), of clearRoute or of a cache restore changes it.
C19_SavedRoutesChangeOnlyBySaveAndDelete ==
    [][ /\ savedRoutes' # savedRoutes =>
            \/ /\ inputModalCallback
               /\ \E value \in {"n"}, id \in 1..MaxId : confirmInputModal(value, id, TRUE)
               /\ Len(savedRoutes') = Len(savedRoutes) + 1
               /\ SubSeq(savedRoutes', 1, Len(savedRoutes)) = savedRoutes
            \/ \E x \in 1..MaxId :
                  /\ deleteSavedRoute(x)
                  /\ savedRoutes' = SelectSeq(savedRoutes, LAMBDA r : r.id # x)
        /\ ( \/ inv' # inv
             \/ sessionStorage' # sessionStorage
             \/ mapSegments' # mapSegments
             \/ isRestoringRoute' # isRestoringRoute
             \/ rafCallback' # rafCallback ) => savedRoutes' = savedRoutes
      ]_vars

\* C19 witness: two routes were saved one after the other, the second from
\* a later pipeline invocation that has completed and written the cache.
C19_Witness ==
    /\ Len(savedRoutes) = 2
    /\ savedRoutes[1].startAddress = "a"
    /\ savedRoutes[2].startAddress = "b"
    /\ savedRoutes[1].id < savedRoutes[2].id
    /\ inv["desktop"].pc = "done"
    /\ currentRouteAddresses.start = "b"
    /\ sessionStorage.kind = "json"

\* The color rows of the classifier table and of the README legend.
LegendColor(code) ==
    CASE code = 0 -> "#4ade80"
      [] code \in 1..3 -> "#86efac"
      [] code \in {45, 48} -> "#9ca3af"
      [] code \in (51..57) \cup {61, 80} -> "#60a5fa"
      [] code \in {63, 81} -> "#3b82f6"
      [] code \in {65, 66, 67, 82} -> "#1e40af"
      [] code \in {71, 85} -> "#e9d5ff"
      [] code = 73 -> "#a855f7"
      [] code \in {75, 77, 86} -> "#9333ea"
      [] code >= 95 -> "#ef4444"

\* C17: for every code listed in the table getWeatherColor returns the
\* color of its row, and for every code the color is the same whatever the
\* precipitation argument.
C17_ColorFromCodeOnly ==
    classification.done =>
        /\ InTable(weatherCode) => classification.color = LegendColor(weatherCode)
        /\ \A precip \in {0, 1} :
              getWeatherColor(weatherCode, precip) = classification.color

\* C17 witness: a heavy-rain code classified with and without precipitation.
C17_Witness ==
    /\ classification.done
    /\ weatherCode = 66
    /\ precipitation = 0
    /\ classification.color = "#1e40af"

\* C20: every alert spans exactly its run of samples: startMile and
\* startTime are the mile position and time of the first sample of the run,
\* endMile and endTime those of its last sample, the mile position of the
\* sample at index i being totalDistance * i / (N - 1).
C20_AlertSpansItsRun ==
    (displayed /\ Len(alerts) = Cardinality(RunStarts)) =>
        \A j \in 1..Len(alerts) :
            LET a == NthRunStart(j)
                b == RunEnd(a)
                n == Len(samples)
            IN  /\ MileEq(alerts[j].startMile, Mile(totalDistance * (a - 1), n - 1))
                /\ alerts[j].startTime = samples[a].time
                /\ MileEq(alerts[j].endMile, Mile(totalDistance * (b - 1), n - 1))
                /\ alerts[j].endTime = samples[b].time

\* C30: getWeatherDescription and getWeatherColor agree on the known codes:
\* the description is 'Unknown' exactly when the color is the unknown gray.
C30_DescriptionAndColorAgree ==
    classification.done =>
        (classification.description = "Unknown"
            <=> classification.color = "#6b7280")

\* C21: clearMap leaves no route segment on the map, however many segments
\* the route shown before had, so that the displayRouteWithWeather that
\* follows meets no leftover id and the map then holds the segments of the
\* new samples only.
C21_ClearMapLeavesNoSegment ==
    mapCleared =>
        layers = (IF displayed THEN 0..(Len(samples) - 2) ELSE {})

\* C22: for a forecast of H >= 1 hourly entries the selected hour index is the
\* number of whole hours from the first hourly timestamp to the arrival time,
\* clamped into 0..H-1: 0 for an arrival before the first entry, H-1 for an
\* arrival at or after the last entry, and always an index of the forecast.
C22_HourIndexClamped ==
    (hourIndex.done /\ hourlyLength >= 1) =>
        LET elapsed == arrival - hourlyStart
            last == (hourlyLength - 1) * MsPerHour
        IN  /\ hourIndex.valid
            /\ hourIndex.value \in 0..(hourlyLength - 1)
            /\ elapsed < 0 => hourIndex.value = 0
            /\ elapsed >= last => hourIndex.value = hourlyLength - 1
            /\ (elapsed >= 0 /\ elapsed < last) =>
                  /\ hourIndex.value * MsPerHour <= elapsed
                  /\ elapsed < (hourIndex.value + 1) * MsPerHour

C22_Witness ==
    /\ hourIndex.done
    /\ hourlyLength = 3
    /\ arrival = hourlyStart + 2 * MsPerHour
    /\ hourIndex.value = 2

\* C23: getWeatherForRoute has one forecast request per route point in flight
\* before it awaits any response, and the sequence it resolves with has one
\* sample per route point, sample i with the coordinates and the projected
\* time of route point i, in whatever order the responses arrived.
C23_OneSamplePerPointInOrder ==
    \A f \in Forms :
        /\ inv[f].pc = "weather" =>
              /\ inv[f].routePoints =
                    sampleRoutePoints(inv[f].route.coordinates, SampleIntervalKm)
              /\ DOMAIN inv[f].requests = DOMAIN inv[f].routePoints
              /\ \A k \in DOMAIN inv[f].requests :
                    inv[f].requests[k] \in {"pending", "ok", "empty"}
        /\ inv[f].computed.some =>
              LET entry == inv[f].computed.entry
                  routePoints == sampleRoutePoints(entry.route.coordinates,
                                                   SampleIntervalKm)
                  items == entry.weatherData.items
                  n == Len(routePoints)
              IN  /\ Len(items) = n
                  /\ n >= 2
                  /\ \A k \in 1..n :
                        /\ items[k].coords = routePoints[k].coords
                        /\ items[k].time =
                              entry.departureTime
                              + (entry.route.duration * 1000 * (k - 1)) \div (n - 1)

\* the response of the second request arrives while the first is pending
C23_Witness ==
    \E f \in Forms :
        /\ inv[f].pc = "weather"
        /\ Len(inv[f].requests) >= 2
        /\ inv[f].requests[1] = "pending"
        /\ inv[f].requests[2] = "ok"
        /\ inv[f].departureTime > 0

\* C24: the steps of one invocation run in a fixed order.  The directions
\* request is in flight only once both locations are geocoded; the route
\* points and the forecast requests exist only once the route is there; and
\* the invocation renders, computes its result and writes the cache only in
\* the step in which the last forecast response arrives, every request
\* having got a response.
StepOrder(f) ==
    /\ inv[f].pc \in {"geocodeStart", "geocodeEnd"} =>
          /\ ~inv[f].route.defined
          /\ inv[f].routePoints = << >>
          /\ inv[f].requests = << >>
    /\ inv[f].pc = "geocodeStart" => inv[f].startCoords = << >>
    /\ inv[f].pc = "route" =>
          /\ inv[f].startCoords = Geocode(inv[f].start)
          /\ inv[f].endCoords = Geocode(inv[f].end)
          /\ ~inv[f].route.defined
          /\ inv[f].requests = << >>
    /\ inv[f].pc = "weather" =>
          /\ inv[f].route.defined
          /\ inv[f].route.req = <<inv[f].startCoords, inv[f].endCoords>>
          /\ inv[f].requests # << >>
    /\ inv[f].pc \in Running =>
          /\ inv[f].rendered = 0
          /\ ~inv[f].cached
          /\ ~inv[f].computed.some
    /\ (inv[f].rendered > 0 \/ inv[f].cached \/ inv[f].computed.some) =>
          /\ inv[f].pc = "done"
          /\ \A k \in DOMAIN inv[f].requests : inv[f].requests[k] \in {"ok", "empty"}

StepTaken(f) ==
    /\ inv'[f].pc = "geocodeEnd" => inv[f].pc \in {"geocodeStart", "geocodeEnd"}
    /\ inv'[f].pc = "route" => inv[f].pc \in {"geocodeEnd", "route"}
    /\ inv'[f].pc = "weather" => inv[f].pc \in {"route", "weather"}
    /\ (inv'[f].pc = "done" /\ inv[f].pc # "done") => inv[f].pc = "weather"

C24_FixedStepOrder ==
    [][/\ \A f \in Forms : StepOrder(f) /\ StepTaken(f)
       /\ (sessionStorage'.kind = "json" /\ sessionStorage' # sessionStorage) =>
             \E f \in Forms :
                /\ inv[f].pc = "weather"
                /\ inv'[f].pc = "done"
                /\ \A k \in DOMAIN inv'[f].requests : inv'[f].requests[k] \in {"ok", "empty"}
      ]_vars

C24_Witness ==
    \E f \in Forms :
        /\ inv[f].pc = "done"
        /\ inv[f].rendered > 0
        /\ inv[f].cached
        /\ Len(inv[f].requests) >= 2

\* C25: the geometry of segment i is the polyline from startIdx to endIdx
\* inclusive, where startIdx and endIdx are the lowest polyline indices at
\* the smallest planar distance from samples i and i + 1.  Equal indices give
\* one point, startIdx > endIdx gives no point, and the segment is created
\* all the same: there is one segment for every pair of successive samples.
LowestClosest(idx, target) ==
    /\ idx \in 0..(Len(coordinates) - 1)
    /\ \A j \in 0..(Len(coordinates) - 1) :
          /\ PlanarDistanceSquared(coordinates[idx + 1], target)
                <= PlanarDistanceSquared(coordinates[j + 1], target)
          /\ j < idx => PlanarDistanceSquared(coordinates[idx + 1], target)
                          < PlanarDistanceSquared(coordinates[j + 1], target)

C25_SegmentIsInclusiveSlice ==
    segmentGeometry.done =>
        /\ Len(segmentGeometry.segments) = Len(points) - 1
        /\ \A i \in DOMAIN segmentGeometry.segments :
              LET seg == segmentGeometry.segments[i]
              IN  /\ LowestClosest(seg.startIdx, points[i].coords)
                  /\ LowestClosest(seg.endIdx, points[i + 1].coords)
                  /\ seg.startIdx > seg.endIdx => seg.segmentCoords = << >>
                  /\ seg.startIdx = seg.endIdx =>
                        seg.segmentCoords = <<coordinates[seg.startIdx + 1]>>
                  /\ seg.startIdx <= seg.endIdx =>
                        /\ Len(seg.segmentCoords) = seg.endIdx - seg.startIdx + 1
                        /\ \A k \in 1..Len(seg.segmentCoords) :
                              seg.segmentCoords[k] = coordinates[seg.startIdx + k]

\* a segment whose end sample is closest to an earlier vertex than its start
C25_Witness ==
    /\ segmentGeometry.done
    /\ \E i \in DOMAIN segmentGeometry.segments :
          /\ segmentGeometry.segments[i].startIdx > segmentGeometry.segments[i].endIdx
          /\ segmentGeometry.segments[i].segmentCoords = << >>
    /\ \E i \in DOMAIN segmentGeometry.segments :
          /\ segmentGeometry.segments[i].startIdx + 1 < segmentGeometry.segments[i].endIdx

\* C29: the segments built from the samples of sampleRoutePoints are
\* contiguous and cover the polyline, also when the polyline revisits a
\* coordinate: the first starts at index 0, each ends where the next starts,
\* and the last ends at the last index of the polyline.
C29_SegmentsCoverPolyline ==
    (segmentGeometry.done /\ segmentGeometry.segments # << >>) =>
        LET segs == segmentGeometry.segments
        IN  /\ segs[1].startIdx = 0
            /\ \A i \in 1..(Len(segs) - 1) : segs[i].endIdx = segs[i + 1].startIdx
            /\ segs[Len(segs)].endIdx = Len(coordinates) - 1

\* C26: whatever the interleaving of overlapping invocations and restore
\* triggers, the addresses of the cached record are those of the invocation
\* that computed its route and weather: the route of the record answers the
\* request for the coordinates of the record's addresses.
C26_CachedAddressesOfSameInvocation ==
    sessionStorage.kind = "json" =>
        /\ ~sessionStorage.addresses.isNull
        /\ sessionStorage.route.req = <<sessionStorage.addresses.startCoords,
                                        sessionStorage.addresses.endCoords>>
        /\ sessionStorage.addresses.startCoords = Geocode(sessionStorage.addresses.start)
        /\ sessionStorage.addresses.endCoords = Geocode(sessionStorage.addresses.end)

\* C27: a route saved by saveCurrentRoute stores the start and end address
\* from which its stored route was computed; a submit that fails after its
\* geocoding does not change what a later save records.
C27_SavedAddressesOfStoredRoute ==
    \A k \in DOMAIN savedRoutes :
        savedRoutes[k].route.req = <<Geocode(savedRoutes[k].startAddress),
                                    Geocode(savedRoutes[k].endAddress)>>

\* C28: restore attempts exclude each other and the guard is always
\* released.  isRestoringRoute is true exactly while the animation-frame
\* callback of a restore is waiting; while it is true no step hands the
\* browser another callback or replaces the waiting one, and the guard goes
\* only with the callback; and every restore that has set the guard sets it
\* back to false, whether the rendering succeeds or throws, given that the
\* callback runs.
C28_RestoreGuardReleased ==
    /\ [](isRestoringRoute <=> rafCallback.pending)
    /\ [][isRestoringRoute =>
            \/ isRestoringRoute' /\ rafCallback' = rafCallback
            \/ ~isRestoringRoute' /\ rafCallback' = NoCallback]_vars
    /\ (isRestoringRoute ~> ~isRestoringRoute)

\* a restore whose rendering threw has run to its end on the loaded map
C28_Witness ==
    /\ map = "loaded"
    /\ ~isRestoringRoute
    /\ ~rafCallback.pending
    /\ sessionStorage.kind = "json"
    /\ ~sessionStorage.route.defined
    /\ sessionStorage.weatherData.defined
    /\ ~sessionStorage.addresses.isNull

============================================================================
